---- MODULE Spec2Model ----
(***************************************************************************)
(* Model of src/src/email-productivity-dashboard.tsx: the Gmail            *)
(* credential and sync lifecycle (connectGmail, fetchEmails,               *)
(* handle401Error, refreshAccessToken, the startup and auto-refresh        *)
(* effects), the enrichment effect with runAnalysis and the reply-draft   *)
(* handlers.                                                               *)
(*                                                                         *)
(* Every `await` of the source is a point where other handlers may run:    *)
(* an operation in flight is a task record whose pc names the request it   *)
(* is waiting on.  The code between two awaits runs atomically (one        *)
(* JavaScript turn), so it is one action.                                  *)
(***************************************************************************)
EXTENDS Integers, Sequences, FiniteSets, TLC

\* ------------------------------------------------------------------ bounds
MaxMsgs == 2    \* message ids the provider may list
MaxTok == 2     \* access tokens issued over a run (stored one included)
MaxTasks == 2   \* operations in flight at once (task slots)
MaxDrafts == 2  \* provider-side drafts created over a run

Msgs == 1..MaxMsgs
Toks == 0..MaxTok            \* 0 is the empty string ''

\* ------------------------------------------------------------- state
VARIABLES
  googleToken,        \* useState googleToken ('' = 0)
  ls,                 \* localStorage: gmail_access_token, gmail_refresh_token, gmail_profile
  gmailStatus,        \* useState gmailStatus
  gisReady,           \* useState gisReady
  isTauri,            \* typeof window.__TAURI__ !== 'undefined'
  openAiKey,          \* OPENAI_API_KEY configured
  emails,             \* useState emails: the snapshot, a sequence of message ids
  analyses,           \* useState analyses: id -> record, NoAnalysis when absent
  analysisState,      \* useState analysisState: id -> "absent" | "loading" | "idle" | "error"
  enrichCalls,        \* outstanding runAnalysis requests: id -> count
  messageActionState, \* useState messageActionState
  replyDrafts,        \* useState replyDrafts: id -> record, NoDraft when absent
  provDrafts,         \* provider side: the drafts created so far
  tasks,              \* operations in flight
  nextTok,            \* next access token the identity provider issues
  ev,                 \* history: what the last step did
  pub,                \* history: the cycle that published the snapshot
  dormant,            \* history: a cycle ended in an authorization failure, no authorization since
  mail,               \* the sender and subject getReplyEnvelope is called with
  envelope,           \* what that call returned
  ordered             \* history: the start order of the sync cycles is recorded

vars == <<googleToken, ls, gmailStatus, gisReady, isTauri, openAiKey, emails, analyses,
          analysisState, enrichCalls, messageActionState, replyDrafts, provDrafts,
          tasks, nextTok, ev, pub, dormant, mail, envelope, ordered>>

authVars == <<googleToken, ls>>
dataVars == <<emails, analyses, analysisState, enrichCalls>>
uiVars == <<messageActionState, replyDrafts, provDrafts>>
envVars == <<gisReady, isTauri, openAiKey, mail, envelope, ordered>>

\* ------------------------------------------------------------ helpers
RECURSIVE ListOrder(_)
\* The ids of a listing in the provider's order (ascending id here).
ListOrder(S) ==
  IF S = {} THEN <<>>
  ELSE LET m == CHOOSE x \in S : \A y \in S : x <= y
       IN <<m>> \o ListOrder(S \ {m})

SetOf(seq) == {seq[i] : i \in DOMAIN seq}

\* maxResults=15 of the list call: a listing never holds more ids.
PageSize == 15

Listings == {S \in SUBSET Msgs : Cardinality(S) <= PageSize}

NoDraft == [present |-> FALSE, loading |-> FALSE, content |-> "", error |-> "",
            draftId |-> 0, saving |-> FALSE, sending |-> FALSE, dirty |-> FALSE,
            notice |-> ""]

NoAction == [archiving |-> FALSE, trashing |-> FALSE, error |-> ""]

\* Header text is a sequence of one-character strings.
NoMail == [sender |-> <<>>, subject |-> <<>>]
NoEnvelope == [called |-> FALSE, ok |-> FALSE, recipient |-> <<>>, subject |-> <<>>]

\* No call of getReplyEnvelope is followed.
NoReplyCall == mail = NoMail /\ envelope = NoEnvelope

\* An operation in flight: pc names the request awaited, tok the bearer token it
\* was started with, cont what its caller does after handle401Error returns.
\* History fields: refreshes counts the refresh grants posted on its behalf,
\* call401 and tok401 the last call of it answered 401 and the token of that call.
\* A draft request carries method, did (the draft id in its URL) and body; hadId
\* is the draftId the record held when the handler was called.  Of a sync cycle
\* in flight, rank counts the cycles in flight that started before it, and
\* older says that it started before the cycle that set the current snapshot.
NoTaskFields == [tok |-> 0, rt |-> 0, email |-> 0, listed |-> {}, got |-> {},
                 cont |-> "none", refreshes |-> 0, call401 |-> "", tok401 |-> 0,
                 did |-> 0, hadId |-> 0, method |-> "", body |-> "",
                 rank |-> 0, older |-> FALSE]

NewTask(id, pc, tok) ==
  [id |-> id, pc |-> pc] @@ [NoTaskFields EXCEPT !.tok = tok]

\* What the last step did.  A step that ends an operation one of whose calls was
\* answered 401 records that call, the token it carried and whether a refresh
\* token was stored when the 401 arrived.
NoEv == [type |-> "init", email |-> 0, call401 |-> "", tok401 |-> 0, rtStored |-> FALSE,
         msg |-> ""]

Ev(type, t) == [NoEv EXCEPT !.type = type, !.email = t.email]

\* The event of a step that ends operation t.
EndEv(type, t) ==
  [NoEv EXCEPT !.type = type, !.email = t.email, !.call401 = t.call401,
               !.tok401 = t.tok401, !.rtStored = (t.refreshes > 0)]

\* The event of a step in which operation t fails with error message m.
FailEv(type, t, m) == [EndEv(type, t) EXCEPT !.msg = m]

NoPub == [set |-> FALSE, listed |-> {}, got |-> {}]

\* ------------------------------------------------- error classification
\* Provider error messages (errBody.error.message) the model draws from.
ScopeMsg == "Request had insufficient authentication scopes."
InvalidMsg == "Invalid Credentials"
BothMsg == "Invalid token: insufficient authentication scopes"
BackendMsg == "Backend Error"
ProviderMsgs == {ScopeMsg, InvalidMsg, BothMsg, BackendMsg}

\* /insufficient authentication scopes/i.test(message)
HasScopeSignature(m) == m \in {ScopeMsg, BothMsg}
\* /invalid.*(credential|token|authentication)/i.test(message)
HasInvalidSignature(m) == m \in {InvalidMsg, BothMsg}

MissingScopesText == "Missing permissions: Please reconnect Gmail and accept all requested permissions (compose, modify, and send)."
AuthExpiredText == "Authentication expired. Please reconnect to Gmail."
SessionExpiredText == "Session expired. Please reconnect to Gmail."
DetailFailText == "Unable to read full message."

\* A classification that tests the invalid-credential signature first.
interpretGmailErrorInvalidFirst(m, st) ==
  IF HasInvalidSignature(m)
  THEN [message |-> AuthExpiredText, status |-> st]
  ELSE IF HasScopeSignature(m)
  THEN [message |-> MissingScopesText,
        status |-> [st EXCEPT !.error = MissingScopesText, !.connected = FALSE]]
  ELSE [message |-> m, status |-> st]

\* interpretGmailError: the message shown, and gmailStatus after its setGmailStatus.
interpretGmailError(m, st) ==
  IF HasScopeSignature(m)
  THEN [message |-> MissingScopesText,
        status |-> [st EXCEPT !.error = MissingScopesText, !.connected = FALSE]]
  ELSE IF HasInvalidSignature(m)
  THEN [message |-> AuthExpiredText, status |-> st]
  ELSE [message |-> m, status |-> st]

\* ------------------------------------------------------ enrichment effect
NoAnalysis == [category |-> "none", priority |-> 0]

\* A queue that stops at a message whose enrichment failed.
NextEmailBlockedByError(em, an, st) ==
  LET idx == {i \in DOMAIN em : an[em[i]] = NoAnalysis /\ st[em[i]] # "loading"}
  IN IF idx = {} \/ (\E i \in DOMAIN em : st[em[i]] = "error") THEN 0
     ELSE em[CHOOSE i \in idx : \A j \in idx : i <= j]

\* A queue that looks only at the loading flag, not at the insight map.
NextEmailIgnoresRecords(em, an, st) ==
  LET idx == {i \in DOMAIN em : st[em[i]] # "loading"}
  IN IF idx = {} THEN 0 ELSE em[CHOOSE i \in idx : \A j \in idx : i <= j]

\* emails.find(email => !analyses[email.id] && !analysisState[email.id]?.loading)
NextEmail(em, an, st) ==
  LET idx == {i \in DOMAIN em : an[em[i]] = NoAnalysis /\ st[em[i]] # "loading"}
  IN IF idx = {} THEN 0 ELSE em[CHOOSE i \in idx : \A j \in idx : i <= j]

RECURSIVE EnrichEffect(_, _, _, _, _)
\* The enrichment effect, run until it finds nothing to start: every run that
\* finds a message calls runAnalysis, whose setAnalysisState re-runs the effect.
\* Returns analysisState and the outstanding calls.
EnrichEffect(key, em, an, st, calls) ==
  IF ~key \/ Len(em) = 0 THEN [state |-> st, calls |-> calls]
  ELSE LET n == NextEmail(em, an, st)
       IN IF n = 0 THEN [state |-> st, calls |-> calls]
          ELSE EnrichEffect(key, em, an, [st EXCEPT ![n] = "loading"],
                            [calls EXCEPT ![n] = @ + 1])

\* ------------------------------------------------------------- Init
\* The stored credentials a launch may find.
StoredCredentials == [access : {0, 1}, refresh : {0, 1}, profile : {"user"}]

\* A startup effect that waits for the timer instead of fetching.
StartupFetchNone(l) == {}

\* fetchEmails(savedToken) of the startup effect (lines 90-92, 102).
StartupFetch(l) == IF l.access # 0 THEN {NewTask(1, "list", l.access)} ELSE {}

\* State after construction and the mount effects (startup effect, lines 89-113).
InitWith(l, tauri, key) ==
  /\ ls = l
  /\ isTauri = tauri
  /\ openAiKey = key
  /\ gisReady = FALSE
  /\ NoReplyCall
  /\ googleToken = l.access
  /\ gmailStatus = IF l.access # 0
                   THEN [loading |-> TRUE, connected |-> TRUE, error |-> "",
                         profile |-> IF l.profile # "" THEN l.profile ELSE "Connected",
                         lastSync |-> FALSE]
                   ELSE [loading |-> FALSE, connected |-> FALSE, error |-> "",
                         profile |-> "", lastSync |-> FALSE]
  /\ tasks = StartupFetch(l)
  /\ nextTok = 2
  /\ emails = <<>>
  /\ analyses = [m \in Msgs |-> NoAnalysis]
  /\ analysisState = [m \in Msgs |-> "absent"]
  /\ enrichCalls = [m \in Msgs |-> 0]
  /\ messageActionState = [m \in Msgs |-> NoAction]
  /\ replyDrafts = [m \in Msgs |-> NoDraft]
  /\ provDrafts = {}
  /\ ev = NoEv
  /\ pub = NoPub
  /\ dormant = FALSE

Init == \E l \in StoredCredentials : InitWith(l, TRUE, FALSE) /\ ordered = FALSE

\* ------------------------------------------------------- task slots
UsedIds == {t.id : t \in tasks}
HasFreeId == \E i \in 1..MaxTasks : i \notin UsedIds
FreeId == CHOOSE i \in 1..MaxTasks : i \notin UsedIds /\ \A j \in 1..MaxTasks : j \notin UsedIds => i <= j

\* ------------------------------------------------------- completion
\* A caller that leaves the message's busy flag as it is after the recovery.
ContActionsSilent(t, mas) == mas

\* What the caller of handle401Error does once the recovery returns.
ContActions(t, mas) ==
  IF t.cont = "archive401" THEN [mas EXCEPT ![t.email].archiving = FALSE]
  ELSE IF t.cont = "trash401" THEN [mas EXCEPT ![t.email].trashing = FALSE]
  ELSE mas

\* A caller that records nothing on the draft after the recovery.
ContDraftsSilent(t, rd) == rd

\* generateReplyDraft, saveDraftEdits and sendReply after their await of
\* handle401Error (lines 631-633, 710-712, 762-764).
ContDrafts(t, rd) ==
  IF t.cont = "gen401"
  THEN [rd EXCEPT ![t.email].present = TRUE, ![t.email].loading = FALSE,
                  ![t.email].error = "Authentication expired"]
  ELSE IF t.cont = "save401"
  THEN [rd EXCEPT ![t.email].present = TRUE, ![t.email].saving = FALSE,
                  ![t.email].error = "Authentication expired"]
  ELSE IF t.cont = "send401"
  THEN [rd EXCEPT ![t.email].present = TRUE, ![t.email].sending = FALSE,
                  ![t.email].error = "Authentication expired"]
  ELSE rd

\* An operation inside fetchEmails (lines 362-428).
IsCycle(t) == t.pc \in {"list", "detail"}

\* The operations left when t is over; the cycles that started after cycle t
\* move up.
Closed(t, T) ==
  {IF IsCycle(t) /\ IsCycle(u) /\ u.rank > t.rank THEN [u EXCEPT !.rank = @ - 1] ELSE u :
     u \in {v \in T : v.id # t.id}}

\* Operation u calls fetchEmails while the operations T are in flight.
Entered(u, T) ==
  [u EXCEPT !.rank = IF ordered THEN Cardinality({v \in T : IsCycle(v)}) ELSE 0,
            !.older = FALSE]

\* Cycle t sets the snapshot (lines 387, 411): the cycles in flight that
\* started before it are from now on older than the snapshot's cycle.
Overtaking(t, T) ==
  {IF IsCycle(u) THEN [u EXCEPT !.older = (u.rank < t.rank)] ELSE u : u \in T}

\* Operation t returns to its caller, which runs its continuation.
Complete(t) ==
  /\ tasks' = Closed(t, tasks)
  /\ messageActionState' = ContActions(t, messageActionState)
  /\ replyDrafts' = ContDrafts(t, replyDrafts)

\* Cycle t returns after it set the snapshot.
CompletePublished(t) ==
  /\ tasks' = Closed(t, Overtaking(t, tasks))
  /\ messageActionState' = ContActions(t, messageActionState)
  /\ replyDrafts' = ContDrafts(t, replyDrafts)

\* Operation t goes on as u.
Replace(t, u) ==
  /\ tasks' =
       IF IsCycle(t) /\ ~IsCycle(u)
       THEN Closed(t, tasks) \cup {[u EXCEPT !.rank = 0, !.older = FALSE]}
       ELSE IF ~IsCycle(t) /\ IsCycle(u)
       THEN (tasks \ {t}) \cup {Entered(u, tasks \ {t})}
       ELSE (tasks \ {t}) \cup {u}
  /\ UNCHANGED <<messageActionState, replyDrafts>>

\* ------------------------------------------------------- fetchEmails
\* fetchEmails up to its first await (lines 362-374), for a non-empty token.
FetchStart(st) == [st EXCEPT !.loading = TRUE, !.error = ""]

\* Lines 410-419: the snapshot a cycle publishes from the details it fetched.
Normalized(listed, got) == ListOrder(got)

PublishStatus(st) ==
  [st EXCEPT !.loading = FALSE, !.connected = TRUE, !.lastSync = TRUE, !.error = ""]

\* Lines 386-395: an empty listing.
EmptyStatus(st) == [st EXCEPT !.loading = FALSE, !.connected = TRUE, !.lastSync = TRUE]

\* Lines 420-427: the catch block.
CatchStatus(m, st) ==
  LET r == interpretGmailError(m, st)
  IN [r.status EXCEPT !.loading = FALSE, !.error = r.message]

\* setEmails(snapshot), and the enrichment effect its change triggers.
SetEmails(snapshot) ==
  LET eff == EnrichEffect(openAiKey, snapshot, analyses, analysisState, enrichCalls)
  IN /\ emails' = snapshot
     /\ analysisState' = eff.state
     /\ enrichCalls' = eff.calls
     /\ UNCHANGED analyses

Publish(t, snapshot, listed, got) ==
  /\ SetEmails(snapshot)
  /\ pub' = [set |-> TRUE, listed |-> listed, got |-> got]

\* A recovery that clears the token in memory and leaves the stored one.
handle401ErrorKeepsStored(l, st) ==
  IF l.refresh # 0
  THEN [token |-> 0, ls |-> l, status |-> st, refresh |-> TRUE]
  ELSE [token |-> 0, ls |-> l,
        status |-> [st EXCEPT !.connected = FALSE, !.loading = FALSE,
                              !.error = AuthExpiredText, !.lastSync = FALSE],
        refresh |-> FALSE]

\* handle401Error (lines 437-457) up to its await: the credentials and status it
\* leaves, and whether it posts a refresh.
handle401Error(l, st) ==
  IF l.refresh # 0
  THEN [token |-> 0, ls |-> [l EXCEPT !.access = 0], status |-> st, refresh |-> TRUE]
  ELSE [token |-> 0, ls |-> [l EXCEPT !.access = 0],
        status |-> [st EXCEPT !.connected = FALSE, !.loading = FALSE,
                              !.error = AuthExpiredText, !.lastSync = FALSE],
        refresh |-> FALSE]

\* A provider call of operation t was answered 401: the shared recovery, after
\* which the caller runs cont.
Recover(t, cont, call) ==
  LET h == handle401Error(ls, gmailStatus)
      u == [t EXCEPT !.cont = cont, !.call401 = call, !.tok401 = t.tok]
  IN /\ googleToken' = h.token
     /\ ls' = h.ls
     /\ gmailStatus' = h.status
     /\ IF h.refresh
        THEN /\ Replace(t, [u EXCEPT !.pc = "refresh", !.rt = ls.refresh,
                                     !.refreshes = @ + 1])
             /\ ev' = Ev("recover", u)
             /\ UNCHANGED dormant
        ELSE /\ Complete(u)
             /\ ev' = EndEv("noRefreshToken", u)
             /\ dormant' = IF call = "list" THEN TRUE ELSE dormant

\* The list call answers (lines 375-396).
ListOk(t) ==
  /\ t \in tasks /\ t.pc = "list"
  /\ \E S \in Listings :
       IF S = {}
       THEN /\ Publish(t, <<>>, {}, {})
            /\ gmailStatus' = EmptyStatus(gmailStatus)
            /\ CompletePublished(t)
            /\ ev' = EndEv("publishEmpty", t)
       ELSE /\ Replace(t, [t EXCEPT !.pc = "detail", !.listed = S, !.got = {}])
            /\ ev' = Ev("listOk", t)
            /\ UNCHANGED <<gmailStatus, dataVars, pub>>
  /\ UNCHANGED <<authVars, envVars, provDrafts, nextTok, dormant>>

List401(t) ==
  /\ t \in tasks /\ t.pc = "list"
  /\ Recover(t, t.cont, "list")
  /\ UNCHANGED <<envVars, dataVars, provDrafts, nextTok, pub>>

ListFail(t) ==
  /\ t \in tasks /\ t.pc = "list"
  /\ \E m \in ProviderMsgs :
       /\ gmailStatus' = CatchStatus(m, gmailStatus)
       /\ dormant' = IF HasScopeSignature(m) \/ HasInvalidSignature(m) THEN TRUE ELSE dormant
       /\ ev' = FailEv("listFail", t, m)
  /\ Complete(t)
  /\ UNCHANGED <<authVars, envVars, dataVars, provDrafts, nextTok, pub>>

\* One detail fetch answers ok (lines 398-419); the last one publishes.
DetailOk(t, m) ==
  /\ t \in tasks /\ t.pc = "detail" /\ m \in t.listed \ t.got
  /\ LET got == t.got \cup {m}
     IN IF got = t.listed
        THEN /\ Publish(t, Normalized(t.listed, got), t.listed, got)
             /\ gmailStatus' = PublishStatus(gmailStatus)
             /\ CompletePublished(t)
             /\ ev' = EndEv("publish", t)
        ELSE /\ Replace(t, [t EXCEPT !.got = got])
             /\ ev' = Ev("detailOk", t)
             /\ UNCHANGED <<gmailStatus, dataVars, pub>>
  /\ UNCHANGED <<authVars, envVars, provDrafts, nextTok, dormant>>

\* A failed detail fetch that publishes the details fetched so far.
DetailFailPartial(old, listed, got) == ListOrder(got)

\* What a failed detail fetch publishes: nothing (line 404 throws, Promise.all rejects).
DetailFailSnapshot(old, listed, got) == old

\* One detail fetch answers !res.ok, 401 or other (lines 403-405, 420-427).
DetailFail(t, m, status401) ==
  /\ t \in tasks /\ t.pc = "detail" /\ m \in t.listed \ t.got
  /\ LET snap == DetailFailSnapshot(emails, t.listed, t.got)
         u == IF status401
              THEN [t EXCEPT !.call401 = "detail", !.tok401 = t.tok]
              ELSE t
     IN /\ SetEmails(snap)
        /\ pub' = IF snap = emails THEN pub
                  ELSE [set |-> TRUE, listed |-> t.listed, got |-> t.got]
        /\ gmailStatus' = CatchStatus(DetailFailText, gmailStatus)
        /\ Complete(u)
        /\ ev' = [EndEv(IF status401 THEN "detail401" ELSE "detailFail", u)
                   EXCEPT !.rtStored = status401 /\ ls.refresh # 0]
  /\ UNCHANGED <<authVars, envVars, provDrafts, nextTok, dormant>>

\* ------------------------------------------------- refreshAccessToken
\* A catch block that forgets to remove the refresh token.
RefreshFailedKeepsRefresh(l) == [l EXCEPT !.access = 0]

\* Lines 168-181: the credentials the catch block leaves.
RefreshFailedStore(l) == [l EXCEPT !.access = 0, !.refresh = 0]

RefreshFailedStatus(st) ==
  [st EXCEPT !.connected = FALSE, !.loading = FALSE, !.error = SessionExpiredText,
             !.lastSync = FALSE]

\* The token endpoint grants a new access token (lines 158-164).
RefreshOk(t) ==
  /\ t \in tasks /\ t.pc = "refresh" /\ nextTok <= MaxTok
  /\ googleToken' = nextTok
  /\ ls' = [ls EXCEPT !.access = nextTok]
  /\ nextTok' = nextTok + 1
  /\ gmailStatus' = FetchStart([gmailStatus EXCEPT !.error = "", !.connected = TRUE])
  /\ Replace(t, [t EXCEPT !.pc = "list", !.tok = nextTok])
  /\ ev' = Ev("refreshOk", t)
  /\ UNCHANGED <<envVars, dataVars, provDrafts, pub, dormant>>

\* The token endpoint denies the grant, or the request fails (lines 165-181).
RefreshFail(t) ==
  /\ t \in tasks /\ t.pc = "refresh"
  /\ googleToken' = 0
  /\ ls' = RefreshFailedStore(ls)
  /\ gmailStatus' = RefreshFailedStatus(gmailStatus)
  /\ Complete(t)
  /\ ev' = EndEv("refreshFailed", t)
  /\ dormant' = IF t.call401 = "list" THEN TRUE ELSE dormant
  /\ UNCHANGED <<envVars, dataVars, provDrafts, nextTok, pub>>

\* ------------------------------------------------ auto-refresh effect
\* The interval exists while googleToken is non-empty (lines 116-132).
TimerActive == googleToken # 0

TimerTick ==
  /\ TimerActive /\ HasFreeId
  /\ tasks' = tasks \cup {Entered(NewTask(FreeId, "list", googleToken), tasks)}
  /\ gmailStatus' = FetchStart(gmailStatus)
  /\ ev' = [NoEv EXCEPT !.type = "tick"]
  /\ UNCHANGED <<authVars, envVars, dataVars, uiVars, nextTok, pub, dormant>>

\* ------------------------------------------------------- connectGmail
GisLoadingText == "Google Identity Services are still loading. Try again shortly."
OAuthFailedText == "Desktop OAuth failed"
AuthFailedText == "Gmail authorization failed."

\* The Connect button is shown when not connected or an error is shown, and is
\* disabled while loading; the Reconnect button is shown with any error
\* (lines 1191-1218).
ConnectEnabled ==
  \/ ~gmailStatus.connected /\ ~gmailStatus.loading
  \/ gmailStatus.error # ""

\* script.onload of the identity-services script (line 209).
GisLoaded ==
  /\ ~gisReady
  /\ gisReady' = TRUE
  /\ ev' = [NoEv EXCEPT !.type = "gis"]
  /\ UNCHANGED <<authVars, gmailStatus, isTauri, openAiKey, mail, envelope, ordered, dataVars,
                 uiVars, tasks,
                 nextTok, pub, dormant>>

\* connectGmail up to its first await (lines 222-243, 308-359).
ConnectGmail ==
  /\ ConnectEnabled /\ HasFreeId
  /\ IF isTauri
     THEN /\ tasks' = tasks \cup {NewTask(FreeId, "oauth", 0)}
          /\ gmailStatus' = [gmailStatus EXCEPT !.loading = TRUE, !.error = ""]
     ELSE IF ~gisReady
     THEN /\ gmailStatus' = [gmailStatus EXCEPT !.loading = FALSE, !.error = GisLoadingText]
          /\ UNCHANGED tasks
     ELSE /\ tasks' = tasks \cup {NewTask(FreeId, "popup", 0)}
          /\ gmailStatus' = [gmailStatus EXCEPT !.loading = TRUE, !.error = ""]
  /\ ev' = [NoEv EXCEPT !.type = "connect"]
  /\ UNCHANGED <<authVars, envVars, dataVars, uiVars, nextTok, pub, dormant>>

\* start_oauth_flow returns the authorization code (line 240).
OAuthOk(t) ==
  /\ t \in tasks /\ t.pc = "oauth"
  /\ Replace(t, [t EXCEPT !.pc = "exchange"])
  /\ ev' = Ev("oauthOk", t)
  /\ UNCHANGED <<authVars, gmailStatus, envVars, dataVars, provDrafts, nextTok,
                 pub, dormant>>

\* A failure report that leaves the Connect button in its connecting state.
AuthFailedStillConnecting(st, text) == [st EXCEPT !.error = text]

\* The status written when authorization fails (lines 299-303, 320-324).
AuthFailed(st, text) == [st EXCEPT !.loading = FALSE, !.error = text]

\* The desktop flow throws: the listener, the browser or the code exchange
\* failed (lines 261-263, 298-304).
DesktopAuthFail(t) ==
  /\ t \in tasks /\ t.pc \in {"oauth", "exchange"}
  /\ gmailStatus' = AuthFailed(gmailStatus, OAuthFailedText)
  /\ Complete(t)
  /\ ev' = EndEv("authFail", t)
  /\ UNCHANGED <<authVars, envVars, dataVars, provDrafts, nextTok, pub, dormant>>

\* Lines 265-273: the credentials stored by the desktop flow.
DesktopStore(l, access, refresh) ==
  IF refresh # 0 THEN [l EXCEPT !.access = access, !.refresh = refresh]
  ELSE [l EXCEPT !.access = access]

\* The token endpoint answers the code exchange with an access token and,
\* when withRefresh, a refresh token (lines 259-273).
ExchangeOk(t, withRefresh) ==
  /\ t \in tasks /\ t.pc = "exchange" /\ nextTok <= MaxTok
  /\ googleToken' = nextTok
  /\ ls' = DesktopStore(ls, nextTok, IF withRefresh THEN nextTok ELSE 0)
  /\ nextTok' = nextTok + 1
  /\ Replace(t, [t EXCEPT !.pc = "profile", !.tok = nextTok])
  /\ dormant' = FALSE
  /\ ev' = Ev("authOk", t)
  /\ UNCHANGED <<gmailStatus, envVars, dataVars, provDrafts, pub>>

\* The popup callback reports an error (lines 319-326).
PopupFail(t) ==
  /\ t \in tasks /\ t.pc = "popup"
  /\ gmailStatus' = AuthFailed(gmailStatus, AuthFailedText)
  /\ Complete(t)
  /\ ev' = EndEv("authFail", t)
  /\ UNCHANGED <<authVars, envVars, dataVars, provDrafts, nextTok, pub, dormant>>

\* The popup callback delivers an access token (lines 328-332).
PopupOk(t) ==
  /\ t \in tasks /\ t.pc = "popup" /\ nextTok <= MaxTok
  /\ googleToken' = nextTok
  /\ ls' = [ls EXCEPT !.access = nextTok]
  /\ nextTok' = nextTok + 1
  /\ Replace(t, [t EXCEPT !.pc = "profile", !.tok = nextTok])
  /\ dormant' = FALSE
  /\ ev' = Ev("authOk", t)
  /\ UNCHANGED <<gmailStatus, envVars, dataVars, provDrafts, pub>>

\* profileData?.email || profileData?.name || 'Connected'
ProfileLabel(r) == IF r = "email" THEN "user" ELSE "Connected"

\* The userinfo call answers (r = "email", "empty") or throws (r = "throw"),
\* then fetchEmails(accessToken) starts (lines 275-297, 334-355).
ProfileResp(t, r) ==
  /\ t \in tasks /\ t.pc = "profile"
  /\ IF r = "throw"
     THEN /\ gmailStatus' = FetchStart([gmailStatus EXCEPT !.loading = FALSE,
                                                           !.connected = TRUE])
          /\ UNCHANGED ls
     ELSE /\ ls' = [ls EXCEPT !.profile = ProfileLabel(r)]
          /\ gmailStatus' = FetchStart([gmailStatus EXCEPT !.loading = FALSE,
                                          !.connected = TRUE,
                                          !.profile = ProfileLabel(r), !.error = ""])
  /\ Replace(t, [t EXCEPT !.pc = "list"])
  /\ ev' = Ev("profile", t)
  /\ UNCHANGED <<googleToken, envVars, dataVars, provDrafts, nextTok, pub, dormant>>

\* ---------------------------------------------------------- runAnalysis
\* defaultAnalysis (lines 57-64), the fields the model keeps.
defaultAnalysis == [category |-> "FYI", priority |-> 5]

Categories == {"Urgent", "Action Needed", "Waiting on Others", "FYI"}

\* JSON objects the collaborator may return; "absent" and 0 stand for a missing field.
Payloads == {[category |-> "Urgent", priority |-> 9],
             [category |-> "absent", priority |-> 0],
             [category |-> "Spam", priority |-> 11]}

\* An answer whose record is never stored.
ParsedNotStored(p) == NoAnalysis

\* { ...defaultAnalysis, ...JSON.parse(content) } (line 847)
Parsed(p) ==
  [category |-> IF p.category = "absent" THEN defaultAnalysis.category ELSE p.category,
   priority |-> IF p.priority = 0 THEN defaultAnalysis.priority ELSE p.priority]

\* The collaborator answers the outstanding call for m with JSON p (lines 845-852).
AnalysisOk(m, p) ==
  /\ enrichCalls[m] > 0
  /\ LET an == [analyses EXCEPT ![m] = Parsed(p)]
         st == [analysisState EXCEPT ![m] = "idle"]
         eff == EnrichEffect(openAiKey, emails, an, st, [enrichCalls EXCEPT ![m] = @ - 1])
     IN /\ analyses' = an
        /\ analysisState' = eff.state
        /\ enrichCalls' = eff.calls
  /\ ev' = [NoEv EXCEPT !.type = "analysisOk", !.email = m]
  /\ UNCHANGED <<authVars, gmailStatus, envVars, emails, uiVars, tasks, nextTok, pub, dormant>>

\* The call for m fails: !res.ok, or JSON.parse throws (lines 841-844, 853-858).
AnalysisFail(m) ==
  /\ enrichCalls[m] > 0
  /\ LET st == [analysisState EXCEPT ![m] = "error"]
         eff == EnrichEffect(openAiKey, emails, analyses, st, [enrichCalls EXCEPT ![m] = @ - 1])
     IN /\ analysisState' = eff.state
        /\ enrichCalls' = eff.calls
  /\ ev' = [NoEv EXCEPT !.type = "analysisFail", !.email = m]
  /\ UNCHANGED <<authVars, gmailStatus, envVars, emails, analyses, uiVars, tasks, nextTok,
                 pub, dormant>>

\* ------------------------------------------------------ reply envelope
\* Header text is a sequence of one-character strings; "a" and "x" stand for
\* any letter.
MinOf(S) == CHOOSE x \in S : \A y \in S : x <= y
MaxOf(S) == CHOOSE x \in S : \A y \in S : y <= x

Includes(v, c) == \E i \in DOMAIN v : v[i] = c

\* String.prototype.trim
Trimmed(v) ==
  LET idx == {i \in DOMAIN v : v[i] # " "}
  IN IF idx = {} THEN <<>> ELSE SubSeq(v, MinOf(idx), MaxOf(idx))

\* value.match(/<([^>]+)>/)?.[1]: the text between the leftmost "<" that is
\* followed by at least one character other than ">" and the next ">";
\* <<>> when nothing matches.
AngleMatch(v) ==
  LET closes(i) == {j \in DOMAIN v : j > i /\ v[j] = ">"}
      opens == {i \in DOMAIN v : v[i] = "<" /\ closes(i) # {} /\ MinOf(closes(i)) > i + 1}
  IN IF opens = {} THEN <<>>
     ELSE SubSeq(v, MinOf(opens) + 1, MinOf(closes(MinOf(opens))) - 1)

\* The part of trimmed.split(/\s+/) that starts at position i.
PartAt(v, i) == SubSeq(v, i, MaxOf({j \in i..Len(v) : \A k \in i..j : v[k] # " "}))

\* .find((part) => part.includes('@') && part.includes('.')): where the first
\* such part starts, 0 when there is none.
EmailLikeStart(v) ==
  LET starts == {i \in DOMAIN v : /\ v[i] # " " /\ (i = 1 \/ v[i - 1] = " ")
                                  /\ Includes(PartAt(v, i), "@")
                                  /\ Includes(PartAt(v, i), ".")}
  IN IF starts = {} THEN 0 ELSE MinOf(starts)

\* .replace(/[<>,]/g, '')
Stripped(v) == SelectSeq(v, LAMBDA c : c \notin {"<", ">", ","})

\* extractEmailAddress (lines 1459-1471).
extractEmailAddress(value) ==
  IF value = <<>> THEN <<>>
  ELSE IF AngleMatch(value) # <<>> THEN Trimmed(AngleMatch(value))
  ELSE LET trimmed == Trimmed(value)
       IN IF Includes(trimmed, " ")
          THEN IF EmailLikeStart(trimmed) = 0 THEN <<>>
               ELSE Stripped(PartAt(trimmed, EmailLikeStart(trimmed)))
          ELSE trimmed

\* String.prototype.toLowerCase on the letters of the subjects.
LowerCase(v) == [i \in DOMAIN v |-> IF v[i] = "R" THEN "r" ELSE IF v[i] = "E" THEN "e" ELSE v[i]]

StartsWith(v, p) == Len(v) >= Len(p) /\ SubSeq(v, 1, Len(p)) = p

NoSubjectText == <<"(no subject)">>
RePrefix == <<"R", "e", ":", " ">>

\* A normalization that prefixes every subject.
ReplySubjectAlwaysPrefixed(subject) ==
  LET subjectBase == IF Trimmed(subject) # <<>> THEN Trimmed(subject) ELSE NoSubjectText
  IN RePrefix \o subjectBase

\* The subject of getReplyEnvelope (lines 1430-1431).
ReplySubject(subject) ==
  LET subjectBase == IF Trimmed(subject) # <<>> THEN Trimmed(subject) ELSE NoSubjectText
  IN IF StartsWith(LowerCase(subjectBase), <<"r", "e", ":">>) THEN subjectBase
     ELSE RePrefix \o subjectBase

\* getReplyEnvelope (lines 1425-1433); ok is false when it throws
\* 'Unable to parse sender email address.'.
getReplyEnvelope(email) ==
  LET recipient == extractEmailAddress(email.sender)
  IN IF recipient = <<>> THEN [NoEnvelope EXCEPT !.called = TRUE]
     ELSE [called |-> TRUE, ok |-> TRUE, recipient |-> recipient,
           subject |-> ReplySubject(email.subject)]

\* ------------------------------------------------------- reply drafts
\* Draft texts: empty, whitespace only, typed text, the generated reply.
TypedContents == {"", " ", "hi"}
DraftText == "generated reply"

\* String.prototype.trim on the texts above.
Trim(c) == IF c = " " THEN "" ELSE c

\* The From header of a message, as text (see below): a display name with
\* the address in angle brackets; a message without the header is
\* 'Unknown sender' (line 1418).
Sender(m) ==
  IF m = 2 THEN <<"a", " ", "a">> ELSE <<"a", " ", "<", "a", "@", "a", ".", "a", ">">>

EmptySaveText == "Draft is empty. Add text before saving."
EmptySendText == "Draft is empty. Add text before sending."
ConnectFirstText == "Connect Gmail first."
UnparseableText == "Unable to parse sender email address."
DraftFailText == "Unable to draft reply."
NoKeyText == "Set OPENAI_API_KEY in config.ts."

\* renderAnalysisPanel shows the controls of a selected message once its
\* analysis is there and not reloading (lines 1026-1051).
ControlsShown(e) ==
  /\ e \in SetOf(emails)
  /\ analysisState[e] # "loading"
  /\ analyses[e] # NoAnalysis

\* patchReplyDraft creates the record on first use (lines 459-467).
Patched(rd, e) == [rd EXCEPT ![e].present = TRUE]

DraftIds == {d.id : d \in provDrafts}
NewDraftId == Cardinality(provDrafts) + 1

\* generateReplyDraft up to its first await (lines 558-598).
GenerateReplyDraft(e) ==
  /\ ControlsShown(e) /\ HasFreeId
  /\ ~replyDrafts[e].loading /\ ~gmailStatus.loading /\ ~messageActionState[e].archiving
  /\ IF ~openAiKey
     THEN /\ replyDrafts' = [Patched(replyDrafts, e) EXCEPT ![e].loading = FALSE,
                               ![e].content = "", ![e].error = NoKeyText]
          /\ UNCHANGED tasks
     ELSE IF googleToken = 0
     THEN /\ replyDrafts' = [Patched(replyDrafts, e) EXCEPT ![e].loading = FALSE,
                               ![e].draftId = 0, ![e].notice = "", ![e].dirty = FALSE,
                               ![e].content = "", ![e].error = ConnectFirstText]
          /\ UNCHANGED tasks
     ELSE /\ replyDrafts' = [Patched(replyDrafts, e) EXCEPT ![e].loading = TRUE,
                               ![e].error = "", ![e].draftId = 0, ![e].notice = "",
                               ![e].dirty = FALSE]
          /\ tasks' = tasks \cup
               {[NewTask(FreeId, "ai", googleToken) EXCEPT
                   !.email = e, !.hadId = replyDrafts[e].draftId]}
  /\ ev' = [NoEv EXCEPT !.type = "generateReplyDraft", !.email = e]
  /\ UNCHANGED <<authVars, gmailStatus, envVars, dataVars, messageActionState, provDrafts,
                 nextTok, pub, dormant>>

EmptyModelText == "Model returned an empty draft."

\* The completion call fails or returns an empty draft (lines 599-607, 648-655).
GenFail(t, m) ==
  /\ t \in tasks /\ t.pc = "ai"
  /\ LET r == interpretGmailError(m, gmailStatus)
     IN /\ gmailStatus' = r.status
        /\ replyDrafts' = [replyDrafts EXCEPT ![t.email].loading = FALSE,
                             ![t.email].content = "", ![t.email].error = r.message]
  /\ tasks' = tasks \ {t}
  /\ ev' = FailEv("genFail", t, m)
  /\ UNCHANGED <<authVars, envVars, dataVars, messageActionState, provDrafts,
                 nextTok, pub, dormant>>

\* The completion call returns the reply; the create-draft request is sent
\* (lines 603-628).
GenAiOk(t) ==
  /\ t \in tasks /\ t.pc = "ai"
  /\ IF extractEmailAddress(Sender(t.email)) = <<>>
     THEN /\ replyDrafts' = [replyDrafts EXCEPT ![t.email].loading = FALSE,
                               ![t.email].content = "", ![t.email].error = UnparseableText]
          /\ tasks' = tasks \ {t}
          /\ ev' = EndEv("genFail", t)
     ELSE /\ tasks' = (tasks \ {t}) \cup
                        {[t EXCEPT !.pc = "genDraft", !.method = "POST", !.body = DraftText]}
          /\ ev' = Ev("genAiOk", t)
          /\ UNCHANGED replyDrafts
  /\ UNCHANGED <<authVars, gmailStatus, envVars, dataVars, messageActionState, provDrafts,
                 nextTok, pub, dormant>>

\* A generation that forgets the id the provider assigned.
GeneratedWithoutId(d, text, id) ==
  [d EXCEPT !.loading = FALSE, !.content = text, !.error = "",
            !.notice = "Draft saved to Gmail.", !.dirty = FALSE]

\* The patch of a generation that succeeded (lines 639-647).
Generated(d, text, id) ==
  [d EXCEPT !.loading = FALSE, !.content = text, !.draftId = id, !.error = "",
            !.notice = "Draft saved to Gmail.", !.dirty = FALSE]

\* The provider created the draft (lines 638-647).
GenOk(t) ==
  /\ t \in tasks /\ t.pc = "genDraft" /\ Cardinality(provDrafts) < MaxDrafts
  /\ provDrafts' = provDrafts \cup {[id |-> NewDraftId, msg |-> t.email, body |-> t.body]}
  /\ replyDrafts' = [replyDrafts EXCEPT ![t.email] = Generated(@, t.body, NewDraftId)]
  /\ tasks' = tasks \ {t}
  /\ ev' = EndEv("genOk", t)
  /\ UNCHANGED <<authVars, gmailStatus, envVars, dataVars, messageActionState, nextTok,
                 pub, dormant>>

\* The provider refused the create-draft request, not with 401 (lines 635-636, 648-655).
GenDraftFail(t, m) ==
  /\ t \in tasks /\ t.pc = "genDraft"
  /\ LET r == interpretGmailError(m, gmailStatus)
     IN /\ gmailStatus' = r.status
        /\ replyDrafts' = [replyDrafts EXCEPT ![t.email].loading = FALSE,
                             ![t.email].content = "", ![t.email].error = r.message]
  /\ tasks' = tasks \ {t}
  /\ ev' = FailEv("genFail", t, m)
  /\ UNCHANGED <<authVars, envVars, dataVars, messageActionState, provDrafts, nextTok,
                 pub, dormant>>

\* A draft or send request was answered 401 (lines 629-634, 708-713, 760-765).
Draft401(t) ==
  /\ t \in tasks /\ t.pc \in {"genDraft", "saveDraft", "sendReq"}
  /\ Recover(t, IF t.pc = "genDraft" THEN "gen401"
                ELSE IF t.pc = "saveDraft" THEN "save401" ELSE "send401",
             IF t.pc = "sendReq" THEN "send" ELSE "draft")
  /\ UNCHANGED <<envVars, dataVars, provDrafts, nextTok, pub>>

\* An edit that also forgets which provider draft the record names.
EditedDetaches(d, v) ==
  [d EXCEPT !.content = v, !.dirty = TRUE, !.draftId = 0, !.error = "", !.notice = ""]

\* The patch of handleDraftContentChange (line 659).
Edited(d, v) == [d EXCEPT !.content = v, !.dirty = TRUE, !.error = "", !.notice = ""]

\* handleDraftContentChange (lines 658-660); the textarea exists once the
\* record does and is disabled while generating (lines 1117-1125).
HandleDraftContentChange(e, v) ==
  /\ ControlsShown(e) /\ replyDrafts[e].present /\ ~replyDrafts[e].loading
  /\ replyDrafts' = [replyDrafts EXCEPT ![e] = Edited(@, v)]
  /\ ev' = [NoEv EXCEPT !.type = "edit", !.email = e]
  /\ UNCHANGED <<authVars, gmailStatus, envVars, dataVars, messageActionState, provDrafts,
                 tasks, nextTok, pub, dormant>>

\* A save that always creates.
SaveMethodAlwaysPost(draftId) == "POST"

\* Lines 685-707: update the draft the record names, else create one.
SaveMethod(draftId) == IF draftId # 0 THEN "PUT" ELSE "POST"

\* A blank check that forgets to trim.
EmptyDraftNoTrim(content) == content = ""

\* const body = draftMeta?.content?.trim(); if (!body) (lines 664-665, 734-735)
EmptyDraft(content) == Trim(content) = ""

\* A catch block that empties the draft, as generateReplyDraft's does.
SaveFailedResets(d, message) ==
  [d EXCEPT !.saving = FALSE, !.content = "", !.draftId = 0, !.error = message]

\* saveDraftEdits' catch block (lines 726-729).
SaveFailed(d, message) == [d EXCEPT !.saving = FALSE, !.error = message]

\* sendReply's catch block (lines 776-782).
SendFailed(d, message) == [d EXCEPT !.sending = FALSE, !.error = message]

\* saveDraftEdits up to its first await (lines 662-707).  The Save button is
\* disabled while saving or generating (line 1135); the handler checks for
\* blank content itself.
SaveDraftEdits(e) ==
  /\ ControlsShown(e) /\ replyDrafts[e].present /\ HasFreeId
  /\ ~replyDrafts[e].saving /\ ~replyDrafts[e].loading
  /\ IF EmptyDraft(replyDrafts[e].content)
     THEN /\ replyDrafts' = [replyDrafts EXCEPT ![e].error = EmptySaveText]
          /\ UNCHANGED tasks
     ELSE IF googleToken = 0
     THEN /\ replyDrafts' = [replyDrafts EXCEPT
                               ![e] = SaveFailed([@ EXCEPT !.notice = ""], ConnectFirstText)]
          /\ UNCHANGED tasks
     ELSE IF extractEmailAddress(Sender(e)) = <<>>
     THEN /\ replyDrafts' = [replyDrafts EXCEPT
                               ![e] = SaveFailed([@ EXCEPT !.notice = ""], UnparseableText)]
          /\ UNCHANGED tasks
     ELSE /\ replyDrafts' = [replyDrafts EXCEPT ![e].saving = TRUE, ![e].notice = ""]
          /\ tasks' = tasks \cup
               {[NewTask(FreeId, "saveDraft", googleToken) EXCEPT
                   !.email = e, !.method = SaveMethod(replyDrafts[e].draftId),
                   !.did = IF SaveMethod(replyDrafts[e].draftId) = "PUT"
                           THEN replyDrafts[e].draftId ELSE 0,
                   !.hadId = replyDrafts[e].draftId,
                   !.body = Trim(replyDrafts[e].content)]}
  /\ ev' = [NoEv EXCEPT !.type = "saveDraftEdits", !.email = e]
  /\ UNCHANGED <<authVars, gmailStatus, envVars, dataVars, messageActionState, provDrafts,
                 nextTok, pub, dormant>>

\* The provider after a draft request: PUT overwrites the draft named, POST adds one.
ProviderAfter(t) ==
  IF t.method = "PUT"
  THEN {IF d.id = t.did THEN [d EXCEPT !.body = t.body] ELSE d : d \in provDrafts}
  ELSE provDrafts \cup {[id |-> NewDraftId, msg |-> t.email, body |-> t.body]}

\* A save that keeps the id the record had instead of the provider's.
AnsweredIdNotCaptured(t) == t.hadId

\* data.id of the provider's answer (lines 717-721).
AnsweredId(t) == IF t.method = "PUT" THEN t.did ELSE NewDraftId

\* The provider stored the draft (lines 717-725).
SaveOk(t) ==
  /\ t \in tasks /\ t.pc = "saveDraft"
  /\ t.method = "POST" => Cardinality(provDrafts) < MaxDrafts
  /\ provDrafts' = ProviderAfter(t)
  /\ replyDrafts' = [replyDrafts EXCEPT ![t.email].saving = FALSE,
                       ![t.email].dirty = FALSE, ![t.email].draftId = AnsweredId(t),
                       ![t.email].notice = "Draft saved to Gmail.", ![t.email].error = ""]
  /\ tasks' = tasks \ {t}
  /\ ev' = EndEv(IF t.method = "PUT" THEN "saveUpdated" ELSE "saveCreated", t)
  /\ UNCHANGED <<authVars, gmailStatus, envVars, dataVars, messageActionState, nextTok,
                 pub, dormant>>

\* The provider refused the save, not with 401 (lines 714-715, 726-729).
SaveFail(t, m) ==
  /\ t \in tasks /\ t.pc = "saveDraft"
  /\ LET r == interpretGmailError(m, gmailStatus)
     IN /\ gmailStatus' = r.status
        /\ replyDrafts' = [replyDrafts EXCEPT ![t.email] = SaveFailed(@, r.message)]
  /\ tasks' = tasks \ {t}
  /\ ev' = FailEv("saveFail", t, m)
  /\ UNCHANGED <<authVars, envVars, dataVars, messageActionState, provDrafts, nextTok,
                 pub, dormant>>

\* sendReply up to its first await (lines 732-758); the Send button is
\* disabled while sending or generating (line 1143).
SendReply(e) ==
  /\ ControlsShown(e) /\ replyDrafts[e].present /\ HasFreeId
  /\ ~replyDrafts[e].sending /\ ~replyDrafts[e].loading
  /\ IF EmptyDraft(replyDrafts[e].content)
     THEN /\ replyDrafts' = [replyDrafts EXCEPT ![e].error = EmptySendText]
          /\ UNCHANGED tasks
     ELSE IF googleToken = 0
     THEN /\ replyDrafts' = [replyDrafts EXCEPT
                               ![e] = SendFailed([@ EXCEPT !.notice = ""], ConnectFirstText)]
          /\ UNCHANGED tasks
     ELSE IF extractEmailAddress(Sender(e)) = <<>>
     THEN /\ replyDrafts' = [replyDrafts EXCEPT
                               ![e] = SendFailed([@ EXCEPT !.notice = ""], UnparseableText)]
          /\ UNCHANGED tasks
     ELSE /\ replyDrafts' = [replyDrafts EXCEPT ![e].sending = TRUE, ![e].notice = ""]
          /\ tasks' = tasks \cup
               {[NewTask(FreeId, "sendReq", googleToken) EXCEPT
                   !.email = e, !.method = "POST", !.body = Trim(replyDrafts[e].content)]}
  /\ ev' = [NoEv EXCEPT !.type = "sendReply", !.email = e]
  /\ UNCHANGED <<authVars, gmailStatus, envVars, dataVars, messageActionState, provDrafts,
                 nextTok, pub, dormant>>

\* A send that discards the draft it has sent.
SentDiscardsDraft(d) ==
  [d EXCEPT !.sending = FALSE, !.dirty = FALSE, !.notice = "Reply sent!", !.error = "",
            !.content = "", !.draftId = 0]

\* The patch of sendReply on success (lines 769-774).
Sent(d) ==
  [d EXCEPT !.sending = FALSE, !.dirty = FALSE, !.notice = "Reply sent!", !.error = ""]

\* The provider sent the message; fetchEmails(token) starts (lines 769-775).
SendOk(t) ==
  /\ t \in tasks /\ t.pc = "sendReq"
  /\ replyDrafts' = [replyDrafts EXCEPT ![t.email] = Sent(@)]
  /\ gmailStatus' = FetchStart(gmailStatus)
  /\ tasks' = (tasks \ {t}) \cup {Entered([t EXCEPT !.pc = "list"], tasks \ {t})}
  /\ ev' = Ev("sendOk", t)
  /\ UNCHANGED <<authVars, envVars, dataVars, messageActionState, provDrafts, nextTok,
                 pub, dormant>>

\* The provider refused the send, not with 401 (lines 766-767, 776-782).
SendFail(t, m) ==
  /\ t \in tasks /\ t.pc = "sendReq"
  /\ LET r == interpretGmailError(m, gmailStatus)
     IN /\ gmailStatus' = r.status
        /\ replyDrafts' = [replyDrafts EXCEPT ![t.email] = SendFailed(@, r.message)]
  /\ tasks' = tasks \ {t}
  /\ ev' = FailEv("sendFail", t, m)
  /\ UNCHANGED <<authVars, envVars, dataVars, messageActionState, provDrafts, nextTok,
                 pub, dormant>>

\* ------------------------------------------------ archiveEmail, trashEmail
ArchiveFailText == "Unable to archive email."
TrashFailText == "Unable to delete email."
FallbackText(kind) == IF kind = "archive" THEN ArchiveFailText ELSE TrashFailText

\* updateMessageAction(id, {archiving | trashing: v}) (lines 489-494).
Flagged(a, kind, v) ==
  IF kind = "archive" THEN [a EXCEPT !.archiving = v] ELSE [a EXCEPT !.trashing = v]

\* archiveEmail and trashEmail up to their first await (lines 496-506, 528-537).
\* requireGoogleToken throws without a token, and the catch block records it.
StartAction(e, kind) ==
  /\ ControlsShown(e) /\ ~gmailStatus.loading /\ HasFreeId
  /\ IF googleToken = 0
     THEN /\ messageActionState' =
               [messageActionState EXCEPT ![e] = [Flagged(@, kind, FALSE) EXCEPT
                                                   !.error = ConnectFirstText]]
          /\ UNCHANGED tasks
     ELSE /\ messageActionState' =
               [messageActionState EXCEPT ![e] = [Flagged(@, kind, TRUE) EXCEPT
                                                   !.error = ""]]
          /\ tasks' = tasks \cup {[NewTask(FreeId, kind, googleToken) EXCEPT !.email = e]}
  /\ ev' = [NoEv EXCEPT !.type = kind, !.email = e]
  /\ UNCHANGED <<authVars, gmailStatus, envVars, dataVars, replyDrafts, provDrafts,
                 nextTok, pub, dormant>>

\* The Archive button is disabled while archiving or syncing (line 1084).
archiveEmail(e) == ~messageActionState[e].archiving /\ StartAction(e, "archive")

\* The Delete button is disabled while trashing or syncing (line 1092).
trashEmail(e) == ~messageActionState[e].trashing /\ StartAction(e, "trash")

\* An action that, once the provider has done it, waits for the next sync cycle.
ActionDoneNoSync(t) == {}

\* The provider did the action: fetchEmails(token) starts with the token the
\* action was started with (lines 517-518, 547-548).
ActionDone(t) == {[t EXCEPT !.pc = "list"]}

ActionOk(t) ==
  /\ t \in tasks /\ t.pc \in {"archive", "trash"}
  /\ messageActionState' =
       [messageActionState EXCEPT ![t.email] = Flagged(@, t.pc, FALSE)]
  /\ tasks' = (tasks \ {t}) \cup {Entered(u, tasks \ {t}) : u \in ActionDone(t)}
  /\ gmailStatus' = IF ActionDone(t) = {} THEN gmailStatus ELSE FetchStart(gmailStatus)
  /\ ev' = Ev(IF t.pc = "archive" THEN "archiveOk" ELSE "trashOk", t)
  /\ UNCHANGED <<authVars, envVars, dataVars, replyDrafts, provDrafts, nextTok, pub,
                 dormant>>

\* The provider refused the action, not with 401 (lines 514-515, 519-525,
\* 544-545, 549-555); m is errBody.error.message, "" when the body has none.
ActionFail(t, m) ==
  /\ t \in tasks /\ t.pc \in {"archive", "trash"}
  /\ LET r == interpretGmailError(IF m # "" THEN m ELSE FallbackText(t.pc), gmailStatus)
     IN /\ gmailStatus' = r.status
        /\ messageActionState' =
             [messageActionState EXCEPT ![t.email] = [Flagged(@, t.pc, FALSE) EXCEPT
                                                       !.error = r.message]]
  /\ tasks' = tasks \ {t}
  /\ ev' = FailEv(IF t.pc = "archive" THEN "archiveFail" ELSE "trashFail", t,
                   IF m # "" THEN m ELSE FallbackText(t.pc))
  /\ UNCHANGED <<authVars, envVars, dataVars, replyDrafts, provDrafts, nextTok, pub,
                 dormant>>

\* The action was answered 401 (lines 508-513, 538-543).
Action401(t) ==
  /\ t \in tasks /\ t.pc \in {"archive", "trash"}
  /\ Recover(t, IF t.pc = "archive" THEN "archive401" ELSE "trash401", t.pc)
  /\ UNCHANGED <<envVars, dataVars, provDrafts, nextTok, pub>>

\* ----------------------------------------------------- specifications
\* Sync lifecycle of a launch that finds stored credentials: the startup
\* cycle, the timer, sync cycles and the 401 recovery.
Next ==
  \/ TimerTick
  \/ \E t \in tasks : ListOk(t)
  \/ \E t \in tasks : List401(t)
  \/ \E t \in tasks : ListFail(t)
  \/ \E t \in tasks, m \in Msgs : DetailOk(t, m)
  \/ \E t \in tasks, m \in Msgs, s \in BOOLEAN : DetailFail(t, m, s)
  \/ \E t \in tasks : RefreshOk(t)
  \/ \E t \in tasks : RefreshFail(t)

Spec == Init /\ [][Next]_vars

\* The same launches with the start order of the sync cycles recorded.
InitOverlap == \E l \in StoredCredentials : InitWith(l, TRUE, FALSE) /\ ordered = TRUE

SpecOverlap == InitOverlap /\ [][Next]_vars

\* Credential lifecycle: the above with authorization in both variants.
NextAuth ==
  \/ GisLoaded
  \/ ConnectGmail
  \/ TimerTick
  \/ \E t \in tasks : ListOk(t)
  \/ \E t \in tasks : List401(t)
  \/ \E t \in tasks : ListFail(t)
  \/ \E t \in tasks, m \in Msgs : DetailOk(t, m)
  \/ \E t \in tasks, m \in Msgs, s \in BOOLEAN : DetailFail(t, m, s)
  \/ \E t \in tasks : RefreshOk(t)
  \/ \E t \in tasks : RefreshFail(t)
  \/ \E t \in tasks : OAuthOk(t)
  \/ \E t \in tasks : DesktopAuthFail(t)
  \/ \E t \in tasks, w \in BOOLEAN : ExchangeOk(t, w)
  \/ \E t \in tasks : PopupFail(t)
  \/ \E t \in tasks : PopupOk(t)
  \/ \E t \in tasks, r \in {"email", "empty", "throw"} : ProfileResp(t, r)

InitAuth ==
  \E l \in StoredCredentials, tauri \in BOOLEAN : InitWith(l, tauri, FALSE) /\ ordered = FALSE

SpecAuth == InitAuth /\ [][NextAuth]_vars

\* Enrichment: a launch with the insight collaborator configured and a stored
\* access token but no refresh token (the popup variant stores none).
InitEnrich ==
  /\ InitWith([access |-> 1, refresh |-> 0, profile |-> "user"], FALSE, TRUE)
  /\ ordered = FALSE

NextEnrich ==
  \/ TimerTick
  \/ \E t \in tasks : ListOk(t)
  \/ \E t \in tasks : List401(t)
  \/ \E t \in tasks : ListFail(t)
  \/ \E t \in tasks, m \in Msgs : DetailOk(t, m)
  \/ \E t \in tasks, m \in Msgs, s \in BOOLEAN : DetailFail(t, m, s)
  \/ \E m \in Msgs, p \in Payloads : AnalysisOk(m, p)
  \/ \E m \in Msgs : AnalysisFail(m)

SpecEnrich == InitEnrich /\ [][NextEnrich]_vars

\* The enrichment queue with a collaborator that always answers.
NextQueue ==
  \/ TimerTick
  \/ \E t \in tasks : ListOk(t)
  \/ \E t \in tasks : List401(t)
  \/ \E t \in tasks : ListFail(t)
  \/ \E t \in tasks, m \in Msgs : DetailOk(t, m)
  \/ \E t \in tasks, m \in Msgs, s \in BOOLEAN : DetailFail(t, m, s)
  \/ \E m \in Msgs, p \in Payloads : AnalysisOk(m, p)

SpecQueue == InitEnrich /\ [][NextQueue]_vars

\* Reply drafts: the popup variant (no refresh token is stored) after a sync
\* cycle that published one message, with or without a parseable sender, whose
\* analysis is there.  The walk follows generate, edit, save and send up to the
\* provider's answer to each request; a reply the provider accepts starts a
\* sync cycle, which Spec follows.
InitDraft ==
  /\ ls = [access |-> 1, refresh |-> 0, profile |-> "user"]
  /\ isTauri = FALSE
  /\ openAiKey = TRUE
  /\ gisReady = FALSE
  /\ NoReplyCall
  /\ ordered = FALSE
  /\ googleToken = 1
  /\ gmailStatus = [loading |-> FALSE, connected |-> TRUE, error |-> "",
                    profile |-> "user", lastSync |-> TRUE]
  /\ tasks = {}
  /\ nextTok = 2
  /\ \E m \in Msgs :
       /\ emails = <<m>>
       /\ analyses = [x \in Msgs |-> IF x = m THEN defaultAnalysis ELSE NoAnalysis]
       /\ pub = [set |-> TRUE, listed |-> {m}, got |-> {m}]
  /\ analysisState = [m \in Msgs |-> "idle"]
  /\ enrichCalls = [m \in Msgs |-> 0]
  /\ messageActionState = [m \in Msgs |-> NoAction]
  /\ replyDrafts = [m \in Msgs |-> NoDraft]
  /\ provDrafts = {}
  /\ ev = NoEv
  /\ dormant = FALSE

NextDraft ==
  \/ \E e \in Msgs : GenerateReplyDraft(e)
  \/ \E t \in tasks, m \in {DraftFailText, EmptyModelText} : GenFail(t, m)
  \/ \E t \in tasks : GenAiOk(t)
  \/ \E t \in tasks : GenOk(t)
  \/ \E t \in tasks, m \in ProviderMsgs : GenDraftFail(t, m)
  \/ \E t \in tasks : Draft401(t)
  \/ \E e \in Msgs, v \in TypedContents : HandleDraftContentChange(e, v)
  \/ \E e \in Msgs : SaveDraftEdits(e)
  \/ \E t \in tasks : SaveOk(t)
  \/ \E t \in tasks, m \in ProviderMsgs : SaveFail(t, m)
  \/ \E e \in Msgs : SendReply(e)
  \/ \E t \in tasks, m \in ProviderMsgs : SendFail(t, m)

SpecDraft == InitDraft /\ [][NextDraft]_vars

\* Reply drafts in the desktop variant, a refresh token stored: the requests
\* of generate, save and send, their 401 and the recovery with the sync cycle
\* it re-issues.
InitDraftAuth ==
  /\ ls = [access |-> 1, refresh |-> 1, profile |-> "user"]
  /\ isTauri = TRUE
  /\ openAiKey = TRUE
  /\ gisReady = FALSE
  /\ NoReplyCall
  /\ ordered = FALSE
  /\ googleToken = 1
  /\ gmailStatus = [loading |-> FALSE, connected |-> TRUE, error |-> "",
                    profile |-> "user", lastSync |-> TRUE]
  /\ tasks = {}
  /\ nextTok = 2
  /\ emails = <<1>>
  /\ analyses = [x \in Msgs |-> IF x = 1 THEN defaultAnalysis ELSE NoAnalysis]
  /\ pub = [set |-> TRUE, listed |-> {1}, got |-> {1}]
  /\ analysisState = [m \in Msgs |-> "idle"]
  /\ enrichCalls = [m \in Msgs |-> 0]
  /\ messageActionState = [m \in Msgs |-> NoAction]
  /\ replyDrafts = [m \in Msgs |-> NoDraft]
  /\ provDrafts = {}
  /\ ev = NoEv
  /\ dormant = FALSE

NextDraftAuth ==
  \/ \E e \in Msgs : GenerateReplyDraft(e)
  \/ \E t \in tasks : GenAiOk(t)
  \/ \E t \in tasks : GenOk(t)
  \/ \E t \in tasks : Draft401(t)
  \/ \E e \in Msgs, v \in TypedContents : HandleDraftContentChange(e, v)
  \/ \E e \in Msgs : SaveDraftEdits(e)
  \/ \E e \in Msgs : SendReply(e)
  \/ \E t \in tasks : ListOk(t)
  \/ \E t \in tasks : List401(t)
  \/ \E t \in tasks : ListFail(t)
  \/ \E t \in tasks, m \in Msgs : DetailOk(t, m)
  \/ \E t \in tasks, m \in Msgs, s \in BOOLEAN : DetailFail(t, m, s)
  \/ \E t \in tasks : RefreshOk(t)
  \/ \E t \in tasks : RefreshFail(t)

SpecDraftAuth == InitDraftAuth /\ [][NextDraftAuth]_vars

\* ------------------------------------------------------------ claims
InFlightCycles == {t \in tasks : t.pc \in {"list", "detail"}}

\* The steps in which a sync cycle ends without publishing: the list call or a
\* detail fetch failed, or the list call was answered 401.
CycleFailed(e) ==
  e.type \in {"listFail", "detailFail", "detail401", "recover", "noRefreshToken"}

PublishedByFullCycle ==
  IF pub.set THEN pub.got = pub.listed /\ emails = ListOrder(pub.listed)
  ELSE emails = <<>>

\* C1: the published snapshot is always the result of a cycle whose list call
\* and every detail fetch succeeded, and a step in which a cycle fails (at the
\* list call or at a detail fetch) leaves the snapshot unchanged.
C1_SnapshotFromFullCycle ==
  [][PublishedByFullCycle' /\ (CycleFailed(ev') => emails' = emails)]_vars

\* C1 witness: a cycle failed at a detail fetch while a snapshot was published.
C1_Witness == ev.type = "detailFail" /\ emails # <<>> /\ pub.set

\* C3: at most one sync cycle is in flight at any time.
C3_OneCycleInFlight == Cardinality(InFlightCycles) <= 1

\* C4: an operation one of whose provider calls was answered 401 while a
\* refresh token was stored, and whose refresh grant was not refused, ends
\* Authorized with an access token other than the one the call carried.
C4_RecoveredAfter401 ==
  (ev.call401 # "" /\ ev.rtStored /\ ev.type # "refreshFailed")
    => gmailStatus.connected /\ googleToken # 0 /\ googleToken # ev.tok401

C6_OneReissue == \A t \in tasks : t.refreshes <= 1

\* C7: after a sync cycle ended in AuthExpired or MissingScopes without a
\* successful recovery, no timer tick starts a sync cycle until an
\* authorization completes.
C7_DormantUntilAuthorized == dormant => ev.type # "tick"

\* C2: at every instant at most one enrichment call is outstanding, over all
\* messages of the snapshot.
C2_OneEnrichmentOutstanding ==
  \A m, n \in Msgs :
    /\ enrichCalls[m] <= 1
    /\ (m # n) => ~(enrichCalls[m] > 0 /\ enrichCalls[n] > 0)

\* The save requests in flight for a record that named a draft.
SavesOfExisting(ts) == {t \in ts : t.pc = "saveDraft" /\ t.hadId # 0}

\* C8: a save of a record that names a draft is sent as an update of that
\* draft, and the provider's answer adds no draft and leaves the record naming
\* the same draft.
C8_SaveUpdatesSameDraft ==
  [][/\ \A t \in SavesOfExisting(tasks') : t.method = "PUT" /\ t.did = t.hadId
     /\ \A t \in SavesOfExisting(tasks) :
          (t \notin tasks' /\ ev'.type \in {"saveUpdated", "saveCreated"})
            => /\ DraftIds' = DraftIds
               /\ replyDrafts'[t.email].draftId = t.hadId]_vars

\* C8 witness: the provider answered the update of a draft the record named.
C8_Witness ==
  /\ ev.type = "saveUpdated"
  /\ replyDrafts[ev.email].draftId \in DraftIds
  /\ \E d \in provDrafts : d.id = replyDrafts[ev.email].draftId /\ d.body = "hi"

DraftsOf(m) == {d \in provDrafts : d.msg = m}

\* C9 as stated: at most one provider-side draft is ever created per message.
C9_OneDraftPerMessage == \A m \in Msgs : Cardinality(DraftsOf(m)) <= 1

\* The steps that persist a draft for the first time under a new id.
Creates(e) == e.type \in {"genOk", "saveCreated"}

\* C9 amended: the provider's drafts grow only by one draft at a time, and only
\* when a generation succeeds or a save of a record naming no draft succeeds;
\* the new draft belongs to the message and its id becomes the record's
\* draftId.  Every generation that succeeds creates a draft of its own.
C9_CreatesOnGenerateOrFirstSave ==
  [][/\ (DraftIds' # DraftIds) <=> Creates(ev')
     /\ Creates(ev') =>
          /\ Cardinality(provDrafts' \ provDrafts) = 1
          /\ provDrafts \subseteq provDrafts'
          /\ \A d \in provDrafts' \ provDrafts :
               d.msg = ev'.email /\ replyDrafts'[ev'.email].draftId = d.id
     /\ (ev'.type = "saveCreated") =>
          \E t \in tasks \ tasks' : t.pc = "saveDraft" /\ t.hadId = 0]_vars

\* C9 witness: a second generation for a message created a second draft.
C9_Witness == ev.type = "genOk" /\ Cardinality(DraftsOf(ev.email)) = 2

\* The call of save or send on message e.
Invoked(e, m) == e.type \in {"saveDraftEdits", "sendReply"} /\ e.email = m

\* C10: save and send called on a draft whose content is empty or whitespace
\* only record the EmptyDraft error on the draft, send no request and change
\* nothing else.
C10_BlankDraftRejected ==
  [][\A m \in Msgs :
       (Invoked(ev', m) /\ replyDrafts[m].content \in {"", " "})
         => /\ replyDrafts' =
                 [replyDrafts EXCEPT ![m].error =
                    IF ev'.type = "saveDraftEdits" THEN EmptySaveText ELSE EmptySendText]
            /\ UNCHANGED <<authVars, gmailStatus, envVars, dataVars, messageActionState,
                           provDrafts, tasks, nextTok, pub, dormant>>]_vars

\* C10 witness: save or send was called on a whitespace-only draft.
C10_Witness ==
  /\ Invoked(ev, ev.email)
  /\ ev.email \in Msgs
  /\ replyDrafts[ev.email].content = " "
  /\ replyDrafts[ev.email].error \in {EmptySaveText, EmptySendText}

\* C11: after the enrichment call for a message failed the message is marked
\* errored and no call is outstanding for it: nothing re-issues the call.
C11_NoAutomaticRetry ==
  ev.type = "analysisFail"
    => analysisState[ev.email] = "error" /\ enrichCalls[ev.email] = 0

\* The messages of the snapshot that wait for an insight record and whose
\* enrichment has not failed.
Unenriched ==
  {m \in SetOf(emails) : analyses[m] = NoAnalysis /\ analysisState[m] # "error"}

\* C12: whatever failed before, every message of the snapshot that lacks an
\* insight record has been sent for enrichment (its call is outstanding).
C12_FailureDoesNotBlockQueue ==
  openAiKey => \A m \in Unenriched : enrichCalls[m] > 0 /\ analysisState[m] = "loading"

\* C12 witness: the call for one message just failed while another message of
\* the snapshot, still without a record, has its call outstanding.
C12_Witness ==
  /\ ev.type = "analysisFail"
  /\ \E m \in Unenriched : m # ev.email /\ enrichCalls[m] > 0

\* No enrichment call is outstanding.
QueueIdle == \A m \in Msgs : enrichCalls[m] = 0

\* C13: with a collaborator that always answers, a call is issued for a message
\* only while it has no record and no call outstanding, every answer stores the
\* message's record and ends its call, a record once stored stays, and the
\* queue is idle only when every message of the snapshot has its record: N
\* messages without records end with N records after N calls, one each.
C13_QueueTerminatesWithNRecords ==
  [][/\ \A m \in Msgs :
          /\ enrichCalls'[m] > enrichCalls[m]
               => analyses[m] = NoAnalysis /\ enrichCalls[m] = 0 /\ enrichCalls'[m] = 1
          /\ analyses'[m] # analyses[m]
               => /\ analyses[m] = NoAnalysis /\ enrichCalls[m] = 1
                  /\ ev'.type = "analysisOk" /\ ev'.email = m
     /\ ev'.type = "analysisOk"
          => analyses'[ev'.email] # NoAnalysis /\ enrichCalls'[ev'.email] = 0
     /\ QueueIdle' => \A m \in SetOf(emails') : analyses'[m] # NoAnalysis]_vars

\* C13 witness: a snapshot of MaxMsgs messages, each with its record, the last
\* call just answered and none outstanding.
C13_Witness ==
  /\ ev.type = "analysisOk"
  /\ Len(emails) = MaxMsgs
  /\ \A m \in SetOf(emails) : analyses[m] # NoAnalysis
  /\ QueueIdle

\* The requests of a draft step, and what their callers do after a 401.
DraftPcs == {"genDraft", "saveDraft", "sendReq"}
DraftConts == {"gen401", "save401", "send401"}

\* Operation t of the current state is over in the next.
Ended(t) == \A u \in tasks' : u.id # t.id

\* C14: a draft request answered 401 clears the access token and starts the
\* shared recovery; when the operation is over the draft carries the
\* 'Authentication expired' error and its busy flag is off; the operation
\* never issues a draft or send request again, and such requests start only
\* in the steps of an action the user invoked.
C14_Draft401RecoversWithoutReplay ==
  [][/\ \A t \in tasks :
          (t.pc \in DraftPcs /\ t \notin tasks' /\ ev'.type \in {"recover", "noRefreshToken"})
            => /\ googleToken' = 0 /\ ls'.access = 0
               /\ ls.refresh # 0 =>
                    \E u \in tasks' : u.id = t.id /\ u.pc = "refresh" /\ u.cont \in DraftConts
               /\ ls.refresh = 0 =>
                    Ended(t) /\ replyDrafts'[t.email].error = "Authentication expired"
     /\ \A t \in tasks :
          (t.cont \in DraftConts /\ Ended(t))
            => /\ replyDrafts'[t.email].error = "Authentication expired"
               /\ t.cont = "gen401" => ~replyDrafts'[t.email].loading
               /\ t.cont = "save401" => ~replyDrafts'[t.email].saving
               /\ t.cont = "send401" => ~replyDrafts'[t.email].sending
               /\ provDrafts' = provDrafts
     /\ \A u \in tasks' : u.cont \in DraftConts => u.pc \notin DraftPcs
     /\ \A u \in tasks' :
          (u.pc \in DraftPcs /\ ~\E t \in tasks : t.id = u.id /\ t.pc = u.pc)
            => ev'.type \in {"genAiOk", "saveDraftEdits", "sendReply"}]_vars

\* C14 witness: an operation whose draft or send request was answered 401 is
\* over after a refresh grant that succeeded, the error recorded on the draft.
C14_Witness ==
  /\ ev.call401 \in {"draft", "send"} /\ ev.rtStored
  /\ ev.type # "refreshFailed"
  /\ googleToken # 0
  /\ replyDrafts[ev.email].error = "Authentication expired"

\* The requests a generation waits on.
GenPcs == {"ai", "genDraft"}

\* C15: a generation that fails leaves the draft with the content and the
\* draftId it had when generate was called, not generating, an error recorded.
C15_FailedGenerateRestores ==
  [][/\ \A t \in tasks :
          (t.pc \in GenPcs /\ Ended(t) /\ ev'.type # "genOk")
            => /\ replyDrafts'[t.email].content = replyDrafts[t.email].content
               /\ replyDrafts'[t.email].draftId = t.hadId
               /\ ~replyDrafts'[t.email].loading
               /\ replyDrafts'[t.email].error # ""
     /\ (ev'.type = "generateReplyDraft" /\ tasks' = tasks)
          => /\ replyDrafts'[ev'.email].content = replyDrafts[ev'.email].content
             /\ replyDrafts'[ev'.email].draftId = replyDrafts[ev'.email].draftId
             /\ replyDrafts'[ev'.email].error # ""]_vars

\* The step leaves the content, the draftId and the dirty flag of m's draft alone.
SameDraft(m) ==
  /\ replyDrafts'[m].content = replyDrafts[m].content
  /\ replyDrafts'[m].draftId = replyDrafts[m].draftId
  /\ replyDrafts'[m].dirty = replyDrafts[m].dirty

\* C16: a save or send that fails (401, provider error, unparseable sender, no
\* token) records an error and changes neither the content nor the draftId
\* nor the dirty flag of the draft, in the step that calls it and in the step
\* that ends it.
C16_FailedSaveSendKeepsDraft ==
  [][/\ \A t \in tasks :
          (t.pc \in {"saveDraft", "sendReq"} /\ Ended(t)
             /\ ev'.type \notin {"saveUpdated", "saveCreated", "sendOk"})
            => /\ SameDraft(t.email)
               /\ replyDrafts'[t.email].error # ""
               /\ t.pc = "saveDraft" => ~replyDrafts'[t.email].saving
               /\ t.pc = "sendReq" => ~replyDrafts'[t.email].sending
     /\ ev'.type \in {"saveDraftEdits", "sendReply"}
          => /\ SameDraft(ev'.email)
             /\ tasks' = tasks => replyDrafts'[ev'.email].error # ""]_vars

\* C16 witness: the provider refused the save of an edited draft that names a
\* provider draft.
C16_Witness ==
  /\ ev.type = "saveFail"
  /\ replyDrafts[ev.email].content = "hi"
  /\ replyDrafts[ev.email].draftId # 0
  /\ replyDrafts[ev.email].dirty
  /\ replyDrafts[ev.email].error # ""

\* C17: the step in which a generation succeeds leaves the draft Ready and
\* clean: not generating, no error, its content the generated text, dirty
\* false, and its draftId the id of the one provider draft the step created,
\* which belongs to the message and holds the generated text.
C17_GenerateEndsReadyClean ==
  [][ev'.type = "genOk"
       => LET d == replyDrafts'[ev'.email]
          IN /\ d.present /\ ~d.loading /\ ~d.dirty /\ d.error = ""
             /\ d.content = DraftText
             /\ provDrafts \subseteq provDrafts'
             /\ provDrafts' \ provDrafts =
                  {[id |-> d.draftId, msg |-> ev'.email, body |-> DraftText]}
             /\ d.draftId \notin DraftIds]_vars

\* C17 witness: a generation succeeded for a message that had a draft before.
C17_Witness ==
  /\ ev.type = "genOk"
  /\ replyDrafts[ev.email].content = DraftText
  /\ replyDrafts[ev.email].draftId \in DraftIds
  /\ ~replyDrafts[ev.email].dirty
  /\ Cardinality(provDrafts) = 2

\* The steps in which the provider stores a draft.
Persists(e) == e.type \in {"genOk", "saveUpdated", "saveCreated"}

\* C18: an edit sets the draft's content to the text typed and dirty to
\* true; it leaves the draftId, the busy flags, every other draft, the
\* provider's drafts and the requests in flight as they were (of the record it
\* clears only the displayed error and notice); and the provider's drafts
\* change only in a step in which a save or a generation succeeds.
C18_EditIsLocal ==
  [][/\ ev'.type = "edit"
          => LET m == ev'.email
             IN /\ replyDrafts'[m].dirty
                /\ replyDrafts'[m].content \in TypedContents
                /\ replyDrafts' = [replyDrafts EXCEPT
                                     ![m].content = replyDrafts'[m].content,
                                     ![m].dirty = TRUE, ![m].error = "", ![m].notice = ""]
                /\ UNCHANGED <<authVars, gmailStatus, envVars, dataVars, messageActionState,
                               provDrafts, tasks, nextTok, pub, dormant>>
     /\ provDrafts' # provDrafts => Persists(ev')]_vars

\* C18 witness: an edit of a draft the provider holds; the provider's copy
\* still has the generated text.
C18_Witness ==
  /\ ev.type = "edit"
  /\ replyDrafts[ev.email].content = "hi"
  /\ replyDrafts[ev.email].dirty
  /\ \E d \in provDrafts : d.id = replyDrafts[ev.email].draftId /\ d.body = DraftText

\* ------------------------------------------------- send and message actions
\* The state after a sync cycle published message 1 and generateReplyDraft
\* stored a reply to it as provider draft 1; rt is the stored refresh token
\* (none in the popup variant).
InitReply(rt) ==
  /\ ls = [access |-> 1, refresh |-> rt, profile |-> "user"]
  /\ isTauri = (rt # 0)
  /\ openAiKey = TRUE
  /\ gisReady = FALSE
  /\ NoReplyCall
  /\ ordered = FALSE
  /\ googleToken = 1
  /\ gmailStatus = [loading |-> FALSE, connected |-> TRUE, error |-> "",
                    profile |-> "user", lastSync |-> TRUE]
  /\ tasks = {}
  /\ nextTok = 2
  /\ emails = <<1>>
  /\ analyses = [x \in Msgs |-> IF x = 1 THEN defaultAnalysis ELSE NoAnalysis]
  /\ pub = [set |-> TRUE, listed |-> {1}, got |-> {1}]
  /\ analysisState = [m \in Msgs |-> "idle"]
  /\ enrichCalls = [m \in Msgs |-> 0]
  /\ messageActionState = [m \in Msgs |-> NoAction]
  /\ replyDrafts = [m \in Msgs |->
                      IF m = 1 THEN Generated([NoDraft EXCEPT !.present = TRUE], DraftText, 1)
                      ELSE NoDraft]
  /\ provDrafts = {[id |-> 1, msg |-> 1, body |-> DraftText]}
  /\ ev = NoEv
  /\ dormant = FALSE

\* Sending a reply in the popup variant: edits, the send request with its
\* answers, and the sync cycle a sent reply starts.
NextSend ==
  \/ \E e \in Msgs, v \in TypedContents : HandleDraftContentChange(e, v)
  \/ \E e \in Msgs : SendReply(e)
  \/ \E t \in tasks : SendOk(t)
  \/ \E t \in tasks, m \in ProviderMsgs : SendFail(t, m)
  \/ \E t \in tasks : Draft401(t)
  \/ \E t \in tasks : ListOk(t)
  \/ \E t \in tasks : List401(t)
  \/ \E t \in tasks : ListFail(t)
  \/ \E t \in tasks, m \in Msgs : DetailOk(t, m)
  \/ \E t \in tasks, m \in Msgs, s \in BOOLEAN : DetailFail(t, m, s)

SpecSend == InitReply(0) /\ [][NextSend]_vars

\* The steps of sendReply: its start, and each answer that ends the request.
SendStep(e) ==
  \/ e.type \in {"sendReply", "sendOk", "sendFail"}
  \/ e.type = "noRefreshToken" /\ e.call401 = "send"

\* C19: send transmits the current content as a new outbound message and never
\* reads, updates or deletes the saved provider draft: the request sendReply
\* issues is a POST of the trimmed content that names no draft, and every step
\* of a send, whether it succeeds or fails, leaves the record's content and
\* draftId and the provider's drafts as they were.
C19_SendLeavesDraft ==
  [][ SendStep(ev') =>
        /\ replyDrafts'[ev'.email].content = replyDrafts[ev'.email].content
        /\ replyDrafts'[ev'.email].draftId = replyDrafts[ev'.email].draftId
        /\ provDrafts' = provDrafts
        /\ \A t \in tasks' \ tasks :
              t.pc = "sendReq" =>
                /\ t.body = Trim(replyDrafts[t.email].content)
                /\ t.method = "POST" /\ t.did = 0 ]_vars

C19_Witness ==
  /\ ev.type = "sendOk"
  /\ replyDrafts[ev.email].content = "hi"
  /\ replyDrafts[ev.email].draftId = 1
  /\ provDrafts = {[id |-> 1, msg |-> 1, body |-> DraftText]}

\* Archive, trash and send in both variants, with the recovery of a 401 and the
\* sync cycle a done action or a granted refresh starts, followed to its
\* publication (Spec follows the cycles that fail).
NextMutate ==
  \/ \E e \in Msgs : archiveEmail(e)
  \/ \E e \in Msgs : trashEmail(e)
  \/ \E t \in tasks : ActionOk(t)
  \/ \E t \in tasks, m \in ProviderMsgs \cup {""} : ActionFail(t, m)
  \/ \E t \in tasks : Action401(t)
  \/ \E e \in Msgs : SendReply(e)
  \/ \E t \in tasks : SendOk(t)
  \/ \E t \in tasks, m \in ProviderMsgs : SendFail(t, m)
  \/ \E t \in tasks : Draft401(t)
  \/ \E t \in tasks : ListOk(t)
  \/ \E t \in tasks, m \in Msgs : DetailOk(t, m)
  \/ \E t \in tasks : RefreshOk(t)
  \/ \E t \in tasks : RefreshFail(t)

SpecMutate == (\E rt \in {0, 1} : InitReply(rt)) /\ [][NextMutate]_vars

\* The sync cycles a step starts: operations at the list call after the step
\* that were not there before it.
Started == {u \in tasks' : u.pc = "list" /\ \A t \in tasks : t.id = u.id => t.pc # "list"}

DoneEvents == {"archiveOk", "trashOk", "sendOk"}

\* The steps in which a mutating action fails: the provider refuses it, its
\* 401 finds no refresh token or the refresh is denied, or the handler stops
\* before sending a request.
ActionFailed(e) ==
  \/ e.type \in {"archiveFail", "trashFail", "sendFail"}
  \/ e.type \in {"noRefreshToken", "refreshFailed"} /\ e.call401 \in {"archive", "trash", "send"}
  \/ e.type \in {"archive", "trash", "sendReply"} /\ tasks' = tasks

\* C20: every successful mutating action (archive, trash, send) is followed by
\* the start of a sync cycle, in the step that records the success and with
\* the token the action used; a mutating action that fails starts none: a
\* cycle starts only in such a step or when the refresh of a recovery is
\* granted.
C20_SyncAfterMutation ==
  [][ /\ ev'.type \in DoneEvents =>
            /\ gmailStatus'.loading
            /\ \E u \in Started : u.email = ev'.email /\
                  \E t \in tasks : t.id = u.id /\ t.tok = u.tok /\
                                    t.pc \in {"archive", "trash", "sendReq"}
      /\ ActionFailed(ev') => Started = {}
      /\ Started # {} => ev'.type \in DoneEvents \cup {"refreshOk"} ]_vars

C20_Witness ==
  /\ ev.type = "archiveOk"
  /\ gmailStatus.loading
  /\ ~messageActionState[ev.email].archiving
  /\ \E t \in tasks : t.pc = "list" /\ t.email = ev.email

\* ------------------------------------------------------ credential store
\* C21: every write to the credential store replaces the whole record, so no
\* reachable state holds an access token and a refresh token that come from
\* different authorizations: after the step that stores the result of an
\* authorization, a stored refresh token is the one that authorization issued
\* (authorization n issues access token n and refresh token n).
C21_WritesReplaceRecord ==
  [][ ev'.type = "authOk" =>
        /\ ls'.access = googleToken'
        /\ ls'.refresh \in {0, ls'.access} ]_vars

\* C22: in every reachable state, if no access token is held the system is
\* Unauthenticated: it is not shown as connected, whatever the refresh token
\* and the profile label are.
C22_NoTokenUnauthenticated == googleToken = 0 => ~gmailStatus.connected

\* C23: stored credentials are removed from durable storage only when the
\* token endpoint denies a refresh: a step that removes a stored access or
\* refresh token is the step in which a refresh grant fails, and no other
\* outcome (a 401 by itself, a provider error, a failed authorize) removes one.
C23_RemovedOnlyOnDeniedRefresh ==
  [][ ((ls.access # 0 /\ ls'.access = 0) \/ (ls.refresh # 0 /\ ls'.refresh = 0))
        => ev'.type = "refreshFailed" ]_vars

\* C24: at startup the system is Unauthenticated and starts no sync when no
\* stored access token is found; when one is found it is Authorized at once,
\* holding that token, and exactly one sync cycle is in flight with it.
C24_StartupState ==
  ev.type = "init" =>
    IF ls.access = 0
    THEN googleToken = 0 /\ ~gmailStatus.connected /\ ~gmailStatus.loading /\ tasks = {}
    ELSE /\ googleToken = ls.access /\ gmailStatus.connected /\ gmailStatus.loading
         /\ Cardinality(tasks) = 1
         /\ \A t \in tasks : t.pc = "list" /\ t.tok = ls.access

C24_Witness == ev.type = "init" /\ ls.access # 0 /\ InFlightCycles # {}

\* C25: on launch, whenever a refresh token is in durable storage the app
\* reconnects without user action, also after a restart during a 401
\* recovery (which leaves the refresh token without an access token): the
\* launch holds an access token or has an operation under way that obtains one.
C25_ReconnectsOnLaunch ==
  (ev.type = "init" /\ ls.refresh # 0) => (googleToken # 0 \/ tasks # {})

\* C26: a successful authorization persists the new credentials, enters
\* Authorized and starts a sync cycle regardless of the profile lookup: once
\* the lookup has answered or failed, the system is shown connected, a sync
\* cycle has started, and the profile label is an account name or the
\* placeholder, never missing.
C26_ProfileLookupNonFatal ==
  /\ ev.type = "authOk" => ls.access = googleToken /\ googleToken # 0
  /\ ev.type = "profile" =>
       /\ gmailStatus.connected
       /\ InFlightCycles # {}
       /\ gmailStatus.profile \in {"user", "Connected"}

\* The step starts an enrichment call: a message has more calls outstanding
\* than before, or the message whose call was answered has not fewer.
EnrichStarted ==
  \/ \E m \in Msgs : enrichCalls'[m] > enrichCalls[m]
  \/ /\ ev'.type \in {"analysisOk", "analysisFail"}
     /\ enrichCalls'[ev'.email] >= enrichCalls[ev'.email]

\* C27: a gateway call that invalidates the credentials suspends the Sync
\* Scheduler and the Enrichment Queue: while no access token is held (from the
\* 401 until an authorization completes) no step starts a sync cycle or an
\* enrichment call.
C27_SuspendedWhileInvalid ==
  [][ (googleToken = 0 /\ googleToken' = 0) => Started = {} /\ ~EnrichStarted ]_vars

\* C28: every insight record stored in the insight map passed validation:
\* its category is one of the four values of the closed enum and its priority
\* is an integer from 1 to 10.
C28_StoredInsightsValid ==
  \A m \in Msgs :
    analyses[m] # NoAnalysis =>
      analyses[m].category \in Categories /\ analyses[m].priority \in 1..10

\* ------------------------------------------------- getReplyEnvelope alone
MaxHeaderLen == 7
MaxSubjectLen == 5

HeaderChars == {"a", "@", ".", " ", "<", ">"}
SubjectChars == {"R", "r", "E", "e", ":", " ", "x"}

\* The messages getReplyEnvelope is called with: any sender header with a
\* plain subject, and any subject with the sender of message 1.
MailDrawn ==
  \/ \E k \in 0..MaxHeaderLen : \E h \in [1..k -> HeaderChars] :
       mail = [sender |-> h, subject |-> <<"x">>]
  \/ \E k \in 0..MaxSubjectLen : \E u \in [1..k -> SubjectChars] :
       mail = [sender |-> Sender(1), subject |-> u]

InitEnvelope ==
  /\ MailDrawn
  /\ envelope = NoEnvelope
  /\ ordered = FALSE
  /\ ls = [access |-> 0, refresh |-> 0, profile |-> "user"]
  /\ isTauri = FALSE
  /\ openAiKey = TRUE
  /\ gisReady = FALSE
  /\ googleToken = 0
  /\ gmailStatus = [loading |-> FALSE, connected |-> FALSE, error |-> "",
                    profile |-> "", lastSync |-> FALSE]
  /\ tasks = {}
  /\ nextTok = 2
  /\ emails = <<>>
  /\ analyses = [m \in Msgs |-> NoAnalysis]
  /\ analysisState = [m \in Msgs |-> "absent"]
  /\ enrichCalls = [m \in Msgs |-> 0]
  /\ messageActionState = [m \in Msgs |-> NoAction]
  /\ replyDrafts = [m \in Msgs |-> NoDraft]
  /\ provDrafts = {}
  /\ ev = NoEv
  /\ pub = NoPub
  /\ dormant = FALSE

\* A handler calls getReplyEnvelope(email) (lines 609, 672, 742).
GetReplyEnvelope ==
  /\ ~envelope.called
  /\ envelope' = getReplyEnvelope(mail)
  /\ ev' = [NoEv EXCEPT !.type = "envelope"]
  /\ UNCHANGED <<authVars, gmailStatus, gisReady, isTauri, openAiKey, mail, ordered, dataVars,
                 uiVars, tasks, nextTok, pub, dormant>>

NextEnvelope == GetReplyEnvelope

SpecEnvelope == InitEnvelope /\ [][NextEnvelope]_vars

\* An address-shaped token: letters and dots around one "@".
AddressShaped(v) ==
  /\ \A i \in DOMAIN v : v[i] \in {"a", "@", "."}
  /\ Cardinality({i \in DOMAIN v : v[i] = "@"}) = 1
  /\ Len(v) >= 3 /\ v[1] = "a" /\ v[Len(v)] = "a"

\* The tokens of a header: the maximal runs without a blank or an angle bracket.
Delimiters == {" ", "<", ">"}
HeaderTokens(h) ==
  {SubSeq(h, i, j) : <<i, j>> \in
     {p \in (DOMAIN h) \X (DOMAIN h) :
        /\ p[1] <= p[2]
        /\ \A k \in p[1]..p[2] : h[k] \notin Delimiters
        /\ (p[1] = 1 \/ h[p[1] - 1] \in Delimiters)
        /\ (p[2] = Len(h) \/ h[p[2] + 1] \in Delimiters)}}

\* C29: reply envelope derivation returns the address inside the angle
\* brackets for a display-name sender and the address itself for a
\* bare-address sender, and fails (UnparseableSender) for every sender header
\* that contains no address-shaped token.
C29_EnvelopeRecipient ==
  envelope.called =>
    LET h == mail.sender
    IN /\ \A i \in DOMAIN h :
            ( /\ h[i] = "<" /\ h[Len(h)] = ">"
              /\ AddressShaped(SubSeq(h, i + 1, Len(h) - 1))
              /\ \A k \in 1..(i - 1) : h[k] \in {"a", " "} )
            => envelope.ok /\ envelope.recipient = SubSeq(h, i + 1, Len(h) - 1)
       /\ AddressShaped(h) => envelope.ok /\ envelope.recipient = h
       /\ (\A t \in HeaderTokens(h) : ~AddressShaped(t)) => ~envelope.ok

\* A subject X proper: not blank, no blanks around it, no reply prefix.
PlainSubject(u) ==
  u # <<>> /\ Trimmed(u) = u /\ ~StartsWith(LowerCase(u), <<"r", "e", ":">>)

\* C30: subject normalization is idempotent and adds the prefix at most once:
\* a subject X yields "Re: X", the subject "Re: X" yields itself, and
\* normalizing the result of any subject again yields the same text.
C30_SubjectNormalization ==
  (envelope.called /\ envelope.ok) =>
    LET u == mail.subject
        n == envelope.subject
    IN /\ PlainSubject(u) => n = RePrefix \o u
       /\ (StartsWith(u, RePrefix) /\ PlainSubject(SubSeq(u, 5, Len(u)))) => n = u
       /\ ReplySubject(n) = n

C30_Witness ==
  /\ envelope.called
  /\ mail.subject = RePrefix \o <<"x">>
  /\ envelope.subject = RePrefix \o <<"x">>

\* ------------------------------------------------------ error classification
\* C31: a failure message surfaced by a provider operation is classified in a
\* fixed order: a message with the insufficient-scope signature (also one that
\* carries the invalid-credential signature as well) is shown as MissingScopes
\* and the state leaves Authorized; else a message with the invalid-credential
\* signature is shown as AuthExpired; else the provider's message is shown
\* unchanged; the last two leave the connection status as it was.
C31_ClassifiedInOrder ==
  [][ ev'.msg # "" =>
        LET m == ev'.msg
            shown == replyDrafts'[ev'.email].error
        IN /\ m \in {ScopeMsg, BothMsg} =>
                /\ shown = MissingScopesText
                /\ ~gmailStatus'.connected /\ gmailStatus'.error = MissingScopesText
           /\ m = InvalidMsg => shown = AuthExpiredText /\ gmailStatus' = gmailStatus
           /\ m \notin {ScopeMsg, BothMsg, InvalidMsg} =>
                shown = m /\ gmailStatus' = gmailStatus ]_vars

C31_Witness ==
  /\ ev.type = "saveFail" /\ ev.msg = BothMsg
  /\ replyDrafts[ev.email].error = MissingScopesText
  /\ ~gmailStatus.connected

\* ------------------------------------------------------ failed authorization
\* C32: an authorization that fails (the desktop flow throws in the listener,
\* the browser or the code exchange; the popup callback reports an error)
\* records an error, ends the connecting state, and leaves the in-memory
\* token and the three stored entries (access token, refresh token, profile)
\* as they were.
C32_FailedAuthorizeChangesNoCredential ==
  [][ ev'.type = "authFail" =>
        /\ gmailStatus'.error # "" /\ ~gmailStatus'.loading
        /\ googleToken' = googleToken
        /\ ls' = ls ]_vars

C32_Witness ==
  /\ ev.type = "authFail"
  /\ googleToken # 0 /\ ls.access # 0 /\ ls.refresh # 0
  /\ gmailStatus.error \in {OAuthFailedText, AuthFailedText}

\* ------------------------------------------------------ stale enrichment
\* C33: an enrichment result that arrives for a message id that is not in the
\* current snapshot is dropped: the step adds no insight record and changes
\* nothing else (the insight map and the per-message enrichment status stay
\* as they were).
C33_StaleResultDropped ==
  [][ (ev'.type = "analysisOk" /\ ev'.email \notin SetOf(emails)) =>
        /\ analyses' = analyses
        /\ analysisState' = analysisState ]_vars

\* ------------------------------------------------------ in-progress flags
\* The operations that hold a busy flag of message e: those waiting for the
\* request named pc, and those whose caller resumes with cont after a recovery.
Holding(e, pc, cont) == {t \in tasks : t.email = e /\ (t.pc = pc \/ t.cont = cont)}

\* The operations that hold the shared loading flag: sync cycles, recoveries
\* (which end by clearing it or by starting a cycle) and authorizations.
HoldingLoading ==
  {t \in tasks : t.pc \in {"list", "detail", "refresh", "oauth", "exchange", "popup", "profile"}}

C35_OlderNeverOverwritesNewer ==
  [][ ev'.type \in {"publish", "publishEmpty"} =>
        \A t \in tasks : Ended(t) => ~t.older ]_vars

\* ------------------------------------------------------ late 401
\* The operations whose request is answered 401 in the step: handle401Error
\* runs for them, then the refresh is posted or the operation is over.
Answered401 ==
  {t \in tasks :
     \/ ev'.type = "recover" /\ t.pc # "refresh"
          /\ \E u \in tasks' : u.id = t.id /\ u.pc = "refresh"
     \/ ev'.type = "noRefreshToken" /\ Ended(t)}

\* C36: a new access token obtained by a successful refresh is never
\* discarded by the recovery of a request that was issued with the older
\* token: when a request sent with another token than the one now held is
\* answered 401, the token held and the stored access token stay as they are.
C36_Late401KeepsFreshToken ==
  [][ \A t \in Answered401 :
        (googleToken # 0 /\ t.tok # googleToken) =>
          googleToken' = googleToken /\ ls'.access = ls.access ]_vars

\* ------------------------------------------------------ shared recovery
\* C37: at most one refresh-token grant request is in flight at any time:
\* operations answered 401 concurrently share one recovery.
C37_OneRefreshInFlight == Cardinality({t \in tasks : t.pc = "refresh"}) <= 1

\* ------------------------------------------------------ clean drafts
\* C38: whenever a draft's dirty flag is false and no save of it is in
\* flight, its local content (trimmed, as a save sends it) equals the content
\* last persisted to the provider for it, i.e. the body of the provider draft
\* its draftId names: an edit made while a save is in flight is not marked
\* clean when that save completes.
C38_CleanMeansPersisted ==
  \A e \in Msgs :
    LET d == replyDrafts[e]
    IN (d.present /\ d.draftId # 0 /\ ~d.dirty /\ Holding(e, "saveDraft", "save401") = {}) =>
         \E p \in provDrafts : p.id = d.draftId /\ p.body = Trim(d.content)

\* ------------------------------------------------------ token in memory and stored
\* The operations inside an authorization, a refresh grant or a 401 recovery.
AuthInProgress == {t \in tasks : t.pc \in {"oauth", "exchange", "popup", "profile", "refresh"}}

\* C39: whenever no authorize, refresh or 401 recovery step is in progress,
\* the access token in memory equals the access token in durable storage
\* (both empty, or the same token): the two are set together and cleared
\* together.
C39_MemoryEqualsStored == AuthInProgress = {} => googleToken = ls.access

\* C39 witnesses: at rest with a token issued after launch held and stored,
\* a 401 recovery having run before.
C39_Witness ==
  /\ tasks = {} /\ googleToken > 1 /\ ls.access = googleToken
  /\ ev.call401 # ""

\* ------------------------------------------------------ insight records stay
\* C40: once a message id has an insight record, no enrichment call for that
\* id is outstanding or issued again, also when the snapshot is replaced and
\* the id is in the new one; the record is never removed or changed.
C40_EnrichedOnce ==
  [][ \A m \in Msgs :
        /\ analyses'[m] # NoAnalysis => enrichCalls'[m] = 0
        /\ analyses[m] # NoAnalysis => analyses'[m] = analyses[m] ]_vars

\* C40 witness: a cycle replaces the snapshot by one that holds a message
\* with an insight record next to one without: only the latter is sent.
C40_Witness ==
  /\ ev.type = "publish"
  /\ \E m, n \in SetOf(emails) :
        /\ analyses[m] # NoAnalysis /\ enrichCalls[m] = 0
        /\ analyses[n] = NoAnalysis /\ enrichCalls[n] > 0
====
